---- MODULE Spec2Model ----
(***************************************************************************)
(* Local order book of examples/binance_f_orderbook.rs: the Orderbook      *)
(* (partial, update, verify, best_bid, best_ask) and the depth-processing  *)
(* loop of run_depth that feeds it with one REST snapshot and the stream   *)
(* of DepthOrderBookEvent diffs.                                           *)
(*                                                                         *)
(* Decimal prices and quantities are modelled by small naturals (only      *)
(* their order and the comparison with zero are used by the code), u64     *)
(* update ids and event times by small naturals (the code only compares    *)
(* and copies them).  A BTreeMap<Decimal, Decimal> is a function from the  *)
(* set of its keys to the stored quantities.                               *)
(***************************************************************************)
EXTENDS Integers, Sequences, FiniteSets, TLC

\* ------------------------------------------------------------------ bounds

\* Update ids of the stream range over 0..MaxId.
MaxId == 3

\* Event times range over 0..MaxTime.
MaxTime == 1

\* A message lists at most MaxLevels price levels, bids and asks together.
MaxLevels == 2

\* The largest depth a caller of get_depth asks for.
MaxDepth == 2

\* The number of diffs the channel holds; run_depth makes it with room for
\* 1000 (line 239).
QueueCap == 2

\* The number of times the connection is lost and made again.
MaxReconnects == 1

\* The depth run_depth asks for (line 268).
DepthLevels == 20

\* ------------------------------------------------------------- input sets

SeqsUpTo(S, n) == UNION {[1..k -> S] : k \in 0..n}

\* A price level as it comes off the wire: (price, qty).
Levels(prices, qtys) == [price : prices, qty : qtys]

\* The <<bids, asks>> level lists a message may carry.
LevelLists(prices, qtys, maxLevels) ==
    {l \in SeqsUpTo(Levels(prices, qtys), maxLevels)
           \X SeqsUpTo(Levels(prices, qtys), maxLevels) :
        Len(l[1]) + Len(l[2]) <= maxLevels}

\* DepthOrderBookEvent: the diffs of the stream.
DepthOrderBookEvents(ids, lists) ==
    {[event_time |-> t, first_update_id |-> f, final_update_id |-> u,
      previous_final_update_id |-> pu, bids |-> l[1], asks |-> l[2]] :
        t \in 0..MaxTime, l \in lists, pu \in ids, f \in ids, u \in ids}

\* The diffs fed to the loop are numbered the way the venue numbers them:
\* previous_final_update_id < first_update_id <= final_update_id.  The loop
\* itself reads the three fields without checking this.
WellNumbered(m) ==
    /\ m.previous_final_update_id < m.first_update_id
    /\ m.first_update_id <= m.final_update_id

\* OrderBookPartial: the REST snapshot.
OrderBookPartials(ids, lists) ==
    {[last_update_id |-> id, event_time |-> t, bids |-> l[1], asks |-> l[2]] :
        id \in ids, t \in 0..MaxTime, l \in lists}

\* Inputs of the synchronisation specification: every numbering of the ids;
\* one price, present or deleted.
SyncLists == LevelLists({1}, {0, 1}, MaxLevels)
SyncEvents == {m \in DepthOrderBookEvents(0..MaxId, SyncLists) : WellNumbered(m)}
SyncPartials == OrderBookPartials(0..MaxId, SyncLists)

\* Inputs of the book specification: two prices, deletion and two
\* quantities, in every order; two ids.
BookLists == LevelLists({1, 2}, {0, 1, 2}, MaxLevels)
BookEvents == {m \in DepthOrderBookEvents({0, 1}, BookLists) : WellNumbered(m)}
BookPartials == OrderBookPartials({0, 1}, BookLists)

\* ------------------------------------------------------------- BTreeMap

EmptyMap == [p \in {} |-> 0]

\* BTreeMap::insert: insert or replace.
insert(map, price, qty) ==
    [p \in DOMAIN map \cup {price} |-> IF p = price THEN qty ELSE map[p]]

\* Mutant of remove: the key is left in the map.
remove_nothing(map, price) == map

\* BTreeMap::remove: no-op on an absent key.
remove(map, price) == [p \in DOMAIN map \ {price} |-> map[p]]

\* ------------------------------------------------------------- Orderbook

\* for bid in &data.bids { self.bids.insert(bid.price, bid.qty); }
RECURSIVE insert_all(_, _)
insert_all(map, levels) ==
    IF levels = <<>> THEN map
    ELSE insert_all(insert(map, Head(levels).price, Head(levels).qty), Tail(levels))

\* Mutant of upsert: a zero quantity is stored instead of removing the level.
upsert_stores_zero(map, level) == insert(map, level.price, level.qty)

\* if bid.qty == dec!(0) { remove } else { insert }
upsert(map, level) ==
    IF level.qty = 0 THEN remove(map, level.price)
    ELSE insert(map, level.price, level.qty)

\* for bid in &data.bids { upsert }
RECURSIVE upsert_all(_, _)
upsert_all(map, levels) ==
    IF levels = <<>> THEN map
    ELSE upsert_all(upsert(map, Head(levels)), Tail(levels))

\* Mutant of partial: the maps are not cleared before the snapshot is inserted.
partial_keeps_levels(book, data) ==
    [timestamp |-> data.event_time,
     final_update_id |-> data.last_update_id,
     bids |-> insert_all(book.bids, data.bids),
     asks |-> insert_all(book.asks, data.asks)]

\* Orderbook::partial
partial(book, data) ==
    [timestamp |-> data.event_time,
     final_update_id |-> data.last_update_id,
     bids |-> insert_all(EmptyMap, data.bids),
     asks |-> insert_all(EmptyMap, data.asks)]

\* Orderbook::update
update(book, data) ==
    [timestamp |-> data.event_time,
     final_update_id |-> data.final_update_id,
     bids |-> upsert_all(book.bids, data.bids),
     asks |-> upsert_all(book.asks, data.asks)]

MaxKey(map) == CHOOSE p \in DOMAIN map : \A q \in DOMAIN map : q <= p
MinKey(map) == CHOOSE p \in DOMAIN map : \A q \in DOMAIN map : p <= q

\* Orderbook::best_bid / best_ask, called where the side is non-empty.
best_bid(book) == <<MaxKey(book.bids), book.bids[MaxKey(book.bids)]>>
best_ask(book) == <<MinKey(book.asks), book.asks[MinKey(book.asks)]>>

\* Mutant of verify: the overlap of the two sides is not looked at.
verify_ids_only(book, pu_id, check_bid_ask_overlapping) ==
    book.final_update_id = pu_id

\* Orderbook::verify
verify(book, pu_id, check_bid_ask_overlapping) ==
    IF /\ check_bid_ask_overlapping
       /\ DOMAIN book.bids # {}
       /\ DOMAIN book.asks # {}
       /\ best_bid(book)[1] >= best_ask(book)[1]
    THEN FALSE
    ELSE book.final_update_id = pu_id

RECURSIVE Ascending(_)
Ascending(S) ==
    IF S = {} THEN <<>>
    ELSE LET lo == CHOOSE p \in S : \A q \in S : p <= q
         IN <<lo>> \o Ascending(S \ {lo})

\* BTreeMap::keys and BTreeMap::values iterate in ascending key order.
keys(map) == Ascending(DOMAIN map)
values(map) == [i \in 1..Len(keys(map)) |-> map[keys(map)[i]]]

\* Iterator::rev and Iterator::take
rev(s) == [i \in 1..Len(s) |-> s[Len(s) + 1 - i]]
take(s, n) == SubSeq(s, 1, IF n < Len(s) THEN n ELSE Len(s))

\* Mutant of get_depth: the bid side is read without rev().
get_depth_bids_ascending(book, depth) ==
    [timestamp |-> book.timestamp,
     asks_price |-> take(keys(book.asks), depth),
     bids_price |-> take(keys(book.bids), depth),
     asks_qty |-> take(values(book.asks), depth),
     bids_qty |-> take(values(book.bids), depth)]

\* Orderbook::get_depth; the symbol of the tuple is left out.
get_depth(book, depth) ==
    [timestamp |-> book.timestamp,
     asks_price |-> take(keys(book.asks), depth),
     bids_price |-> take(rev(keys(book.bids)), depth),
     asks_qty |-> take(values(book.asks), depth),
     bids_qty |-> take(rev(values(book.bids)), depth)]

\* ------------------------------------------------------------- run_depth

NoMsg == [none |-> TRUE]
NoId == -1

VARIABLES
    pc,            \* where the spawned task of run_depth stands
    orderbook,     \* let mut orderbook
    partial_init,  \* last_update_id of the outer partial_init (line 246)
    msg,           \* the diff the if-chain of the current iteration looks at
    fetched,       \* the snapshot handed to orderbook.partial by the last step
    before,        \* bids and asks as they were when the last step called
                   \* orderbook.partial or orderbook.update
    branch,        \* the arm of the if-chain the current iteration took
    snapshot_id,   \* last_update_id of the snapshot most recently applied
    synced,        \* a diff has been applied since that snapshot
    recovered,     \* that snapshot was fetched by the recovery arm (line 264)
    ret,           \* arguments and return value of the last verify or
                   \* get_depth call
    sink,          \* what the iteration did to the output file: the record
                   \* handed to the writer, whether the file was rolled over,
                   \* whether the write succeeded
    rx,            \* the channel from the websocket to the task (line 239)
    ws,            \* where run_depth itself stands: connecting (line 243),
                   \* in event_loop (line 288), reconnecting (line 291)
    venue,         \* final update id of the last diff the venue published
    epoch,         \* number of reconnections so far
    lost,          \* some diff was published while no connection was up
    sent,          \* number of diffs put into the channel so far
    taken,         \* number of diffs the task has taken from the channel
    snapshot_epoch \* value of epoch when the last snapshot was fetched

vars == <<pc, orderbook, partial_init, msg, fetched, before, branch,
          snapshot_id, synced, recovered, ret, sink, rx, ws, venue, epoch,
          lost, sent, taken, snapshot_epoch>>

\* What the steps that only move the book leave alone.
aux == <<ret, sink>>

\* The websocket side of run_depth.
stream == <<rx, ws, venue, epoch, lost, sent, taken>>

Sides(book) == [bids |-> book.bids, asks |-> book.asks]

\* The synchronizer state of the design, read off the loop: the task waits
\* for the recovery snapshot (Resyncing), has applied a diff on top of the
\* last snapshot (Synced), or has not (AwaitingSnapshot).
state ==
    IF pc = "fetch_resync" THEN "Resyncing"
    ELSE IF pc # "fetch_init" /\ synced THEN "Synced"
    ELSE "AwaitingSnapshot"

\* Orderbook::new: an empty book; timestamp is the clock's reading.
NewOrderbooks ==
    [timestamp : 0..MaxTime, final_update_id : {0},
     bids : {EmptyMap}, asks : {EmptyMap}]

Init ==
    /\ pc = "fetch_init"
    /\ orderbook \in NewOrderbooks
    /\ partial_init = NoId
    /\ msg = NoMsg
    /\ fetched = NoMsg
    /\ before = NoMsg
    /\ branch = "none"
    /\ snapshot_id = NoId
    /\ synced = FALSE
    /\ recovered = FALSE
    /\ ret = NoMsg
    /\ sink = NoMsg
    /\ rx = <<>>
    /\ ws = "event_loop"
    /\ venue = 0
    /\ epoch = 0
    /\ lost = FALSE
    /\ sent = 0
    /\ taken = 0
    /\ snapshot_epoch = 0

\* Lines 246-247: the initial snapshot arrives and is applied.
FetchInit(partials) ==
    /\ pc = "fetch_init"
    /\ \E data \in partials :
        /\ partial_init' = data.last_update_id
        /\ orderbook' = partial(orderbook, data)
        /\ fetched' = data
        /\ snapshot_id' = data.last_update_id
    /\ before' = Sides(orderbook)
    /\ pc' = "recv"
    /\ synced' = FALSE
    /\ snapshot_epoch' = epoch
    /\ UNCHANGED <<aux, stream>>
    /\ UNCHANGED <<msg, branch, recovered>>

\* Line 250: the next diff is taken from the channel.
Recv(events) ==
    /\ pc = "recv"
    /\ \E m \in events : msg' = m
    /\ pc' = "process"
    /\ fetched' = NoMsg
    /\ before' = NoMsg
    /\ branch' = "none"
    /\ UNCHANGED <<aux, stream, snapshot_epoch>>
    /\ UNCHANGED <<orderbook, partial_init, snapshot_id, synced, recovered>>

\* Line 252: the diff ends below the snapshot.
IsStale(m) == m.final_update_id < partial_init

\* Lines 254-255: the diff straddles the snapshot.
IsBridge(m) ==
    /\ m.first_update_id <= partial_init
    /\ m.final_update_id >= partial_init

\* Lines 252-253: continue, the rest of the iteration is skipped.
ProcessStale ==
    /\ pc = "process"
    /\ IsStale(msg)
    /\ pc' = "recv"
    /\ msg' = NoMsg
    /\ branch' = "stale"
    /\ UNCHANGED <<aux, stream, snapshot_epoch>>
    /\ UNCHANGED <<orderbook, partial_init, fetched, before, snapshot_id,
                   synced, recovered>>

\* Lines 254-257.
ProcessBridge ==
    /\ pc = "process"
    /\ ~IsStale(msg)
    /\ IsBridge(msg)
    /\ orderbook' = update(orderbook, msg)
    /\ before' = Sides(orderbook)
    /\ pc' = "emit"
    /\ branch' = "bridge"
    /\ synced' = TRUE
    /\ UNCHANGED <<aux, stream, snapshot_epoch>>
    /\ UNCHANGED <<partial_init, msg, fetched, snapshot_id, recovered>>

\* Lines 258-260.
ProcessVerified ==
    /\ pc = "process"
    /\ ~IsStale(msg)
    /\ ~IsBridge(msg)
    /\ verify(orderbook, msg.previous_final_update_id, FALSE)
    /\ orderbook' = update(orderbook, msg)
    /\ before' = Sides(orderbook)
    /\ pc' = "emit"
    /\ branch' = "verified"
    /\ synced' = TRUE
    /\ UNCHANGED <<aux, stream, snapshot_epoch>>
    /\ UNCHANGED <<partial_init, msg, fetched, snapshot_id, recovered>>

\* Lines 261-264: verify failed, the task awaits a fresh snapshot.  The
\* diff is not looked at again (what is left of the iteration reads only
\* its event_time, to roll the output file over), so it is let go here.
ProcessResync ==
    /\ pc = "process"
    /\ ~IsStale(msg)
    /\ ~IsBridge(msg)
    /\ ~verify(orderbook, msg.previous_final_update_id, FALSE)
    /\ pc' = "fetch_resync"
    /\ msg' = NoMsg
    /\ branch' = "resync"
    /\ UNCHANGED <<aux, stream, snapshot_epoch>>
    /\ UNCHANGED <<orderbook, partial_init, fetched, before, snapshot_id,
                   synced, recovered>>

\* Lines 263-265: the fresh snapshot arrives and is applied.  Its binding
\* shadows partial_init inside the else block only: the partial_init the
\* loop's tests read (lines 252-255) stays the initial one.
FetchResync(partials) ==
    /\ pc = "fetch_resync"
    /\ \E data \in partials :
        /\ orderbook' = partial(orderbook, data)
        /\ fetched' = data
        /\ snapshot_id' = data.last_update_id
    /\ before' = Sides(orderbook)
    /\ pc' = "emit"
    /\ synced' = FALSE
    /\ recovered' = TRUE
    /\ snapshot_epoch' = epoch
    /\ UNCHANGED <<aux, stream>>
    /\ UNCHANGED <<partial_init, msg, branch>>

\* Lines 246 and 264: the request for the snapshot fails and unwrap panics;
\* the panic ends the spawned task.
FetchFail ==
    /\ pc \in {"fetch_init", "fetch_resync"}
    /\ pc' = "panicked"
    /\ UNCHANGED <<orderbook, partial_init, msg, fetched, before, branch,
                   snapshot_id, synced, recovered, aux, stream,
                   snapshot_epoch>>

\* Mutant of Emit: the task ends when the write fails.
Emit_write_fatal ==
    /\ pc = "emit"
    /\ \E rollover \in BOOLEAN, written \in BOOLEAN :
        /\ sink' = [event |-> get_depth(orderbook, DepthLevels),
                    rotated |-> rollover,
                    written |-> written]
        /\ pc' = IF written THEN "end" ELSE "panicked"
    /\ msg' = NoMsg
    /\ fetched' = NoMsg
    /\ before' = NoMsg
    /\ UNCHANGED <<orderbook, partial_init, branch, snapshot_id, synced,
                   recovered, ret, stream, snapshot_epoch>>

\* Lines 268-284: the depth record is made; if the diff's event_time is past
\* tmr_dt (a reading of the wall clock) a new file is opened; the record is
\* written, and an error of the write is logged.  msg is not read again.
Emit ==
    /\ pc = "emit"
    /\ \E rollover \in BOOLEAN, written \in BOOLEAN :
        sink' = [event |-> get_depth(orderbook, DepthLevels),
                 rotated |-> rollover,
                 written |-> written]
    /\ pc' = "end"
    /\ msg' = NoMsg
    /\ fetched' = NoMsg
    /\ before' = NoMsg
    /\ UNCHANGED <<orderbook, partial_init, branch, snapshot_id, synced,
                   recovered, ret, stream, snapshot_epoch>>

\* Line 278: the new file cannot be created and unwrap panics.
RotateFail ==
    /\ pc = "emit"
    /\ pc' = "panicked"
    /\ UNCHANGED <<orderbook, partial_init, msg, fetched, before, branch,
                   snapshot_id, synced, recovered, aux, stream,
                   snapshot_epoch>>

\* Line 285: the iteration ends, the record is dropped, the loop starts over.
EndIteration ==
    /\ pc = "end"
    /\ pc' = "recv"
    /\ sink' = NoMsg
    /\ UNCHANGED <<orderbook, partial_init, msg, fetched, before, branch,
                   snapshot_id, synced, recovered, ret, stream,
                   snapshot_epoch>>

\* The steps of the spawned task other than rx.recv().
Task(partials) ==
    \/ FetchInit(partials)
    \/ FetchFail
    \/ ProcessStale
    \/ ProcessBridge
    \/ ProcessVerified
    \/ ProcessResync
    \/ FetchResync(partials)
    \/ Emit
    \/ RotateFail
    \/ EndIteration

Next(events, partials) ==
    \/ Recv(events)
    \/ Task(partials)

NextSync == Next(SyncEvents, SyncPartials)

\* The loop of run_depth fed with every numbering of the update ids.
Spec == Init /\ [][NextSync]_vars

\* ------------------------------------------ run_depth with its websocket

\* Inputs of the stream specification: one price, one quantity, at most one
\* level a message; the venue numbers the diffs on from the last one.
StreamLists == LevelLists({1}, {1}, 1)
StreamEvents ==
    {m \in DepthOrderBookEvents(0..MaxId, StreamLists) :
        WellNumbered(m) /\ m.event_time = 0}
StreamPartials ==
    {data \in OrderBookPartials(0..MaxId, StreamLists) : data.event_time = 0}

\* A diff as it lies in the channel, with the place it has in the order of
\* arrival and the connection it came over.
Queued(m, n, e) ==
    [event_time |-> m.event_time,
     first_update_id |-> m.first_update_id,
     final_update_id |-> m.final_update_id,
     previous_final_update_id |-> m.previous_final_update_id,
     bids |-> m.bids,
     asks |-> m.asks,
     seq |-> n,
     epoch |-> e]

\* Lines 239-241: channel, websocket and book are made; nothing is connected
\* and the task is not spawned.  The venue has been publishing for a while.
InitStream ==
    /\ pc = "unspawned"
    /\ orderbook \in NewOrderbooks
    /\ partial_init = NoId
    /\ msg = NoMsg
    /\ fetched = NoMsg
    /\ before = NoMsg
    /\ branch = "none"
    /\ snapshot_id = NoId
    /\ synced = FALSE
    /\ recovered = FALSE
    /\ ret = NoMsg
    /\ sink = NoMsg
    /\ rx = <<>>
    /\ ws = "connect"
    /\ venue \in 0..MaxId
    /\ epoch = 0
    /\ lost = FALSE
    /\ sent = 0
    /\ taken = 0
    /\ snapshot_epoch = 0

\* Lines 243-245: the first connect succeeds and the task is spawned.
Connect ==
    /\ ws = "connect"
    /\ ws' = "event_loop"
    /\ pc' = "fetch_init"
    /\ UNCHANGED <<orderbook, partial_init, msg, fetched, before, branch,
                   snapshot_id, synced, recovered, aux, rx, venue, epoch,
                   lost, sent, taken, snapshot_epoch>>

\* Line 243: the first connect fails and unwrap panics; run_depth ends
\* before the task is spawned.
ConnectFail ==
    /\ ws = "connect"
    /\ ws' = "panicked"
    /\ UNCHANGED <<pc, orderbook, partial_init, msg, fetched, before, branch,
                   snapshot_id, synced, recovered, aux, rx, venue, epoch,
                   lost, sent, taken, snapshot_epoch>>

\* Line 288, inside event_loop: the venue publishes the next diff and the
\* websocket puts it into the channel, waiting while the channel is full.
Deliver(events) ==
    /\ ws = "event_loop"
    /\ Len(rx) < QueueCap
    /\ \E m \in events :
        /\ m.previous_final_update_id = venue
        /\ rx' = Append(rx, Queued(m, sent + 1, epoch))
        /\ venue' = m.final_update_id
    /\ sent' = sent + 1
    /\ UNCHANGED <<pc, orderbook, partial_init, msg, fetched, before, branch,
                   snapshot_id, synced, recovered, aux, ws, epoch, lost,
                   taken, snapshot_epoch>>

\* Line 288: event_loop returns Err.
Disconnect ==
    /\ ws = "event_loop"
    /\ epoch < MaxReconnects
    /\ ws' = "reconnect"
    /\ UNCHANGED <<pc, orderbook, partial_init, msg, fetched, before, branch,
                   snapshot_id, synced, recovered, aux, rx, venue, epoch,
                   lost, sent, taken, snapshot_epoch>>

\* Line 291: connect returns Err and is called again; what the venue
\* publishes in the meantime is not received.
ReconnectFail ==
    /\ ws = "reconnect"
    /\ \E v \in venue..MaxId :
        /\ venue' = v
        /\ lost' = (lost \/ v > venue)
    /\ UNCHANGED <<pc, orderbook, partial_init, msg, fetched, before, branch,
                   snapshot_id, synced, recovered, aux, rx, ws, epoch, sent,
                   taken, snapshot_epoch>>

\* Lines 291 and 288: connect returns Ok and event_loop runs again.  The
\* spawned task is not told.
Reconnect ==
    /\ ws = "reconnect"
    /\ ws' = "event_loop"
    /\ epoch' = epoch + 1
    /\ UNCHANGED <<pc, orderbook, partial_init, msg, fetched, before, branch,
                   snapshot_id, synced, recovered, aux, rx, venue, lost, sent,
                   taken, snapshot_epoch>>

\* Mutant of RecvQueued: the diff that arrived last is taken.
RecvQueued_last ==
    /\ pc = "recv"
    /\ rx # <<>>
    /\ msg' = rx[Len(rx)]
    /\ rx' = SubSeq(rx, 1, Len(rx) - 1)
    /\ taken' = taken + 1
    /\ pc' = "process"
    /\ fetched' = NoMsg
    /\ before' = NoMsg
    /\ branch' = "none"
    /\ UNCHANGED <<orderbook, partial_init, snapshot_id, synced, recovered,
                   aux, ws, venue, epoch, lost, sent, snapshot_epoch>>

\* Line 250: rx.recv() hands over the diff at the head of the channel; the
\* task waits while the channel is empty.
RecvQueued ==
    /\ pc = "recv"
    /\ rx # <<>>
    /\ msg' = Head(rx)
    /\ rx' = Tail(rx)
    /\ taken' = taken + 1
    /\ pc' = "process"
    /\ fetched' = NoMsg
    /\ before' = NoMsg
    /\ branch' = "none"
    /\ UNCHANGED <<orderbook, partial_init, snapshot_id, synced, recovered,
                   aux, ws, venue, epoch, lost, sent, snapshot_epoch>>

\* The snapshots a fetch can return: the book as of some diff published.
Published(partials) == {data \in partials : data.last_update_id <= venue}

NextStream ==
    \/ Connect
    \/ ConnectFail
    \/ Deliver(StreamEvents)
    \/ Disconnect
    \/ ReconnectFail
    \/ Reconnect
    \/ RecvQueued
    \/ Task(Published(StreamPartials))

\* run_depth whole: the websocket side and the spawned task.
SpecStream == InitStream /\ [][NextStream]_vars

\* ------------------------------------------------- the Orderbook by itself

\* Orderbook is a public type: partial and update called in any order, with
\* any data, on the book a caller owns.
InitBook ==
    /\ pc = "idle"
    /\ orderbook \in NewOrderbooks
    /\ partial_init = NoId
    /\ msg = NoMsg
    /\ fetched = NoMsg
    /\ before = NoMsg
    /\ branch = "none"
    /\ snapshot_id = NoId
    /\ synced = FALSE
    /\ recovered = FALSE
    /\ ret = NoMsg
    /\ sink = NoMsg
    /\ rx = <<>>
    /\ ws = "event_loop"
    /\ venue = 0
    /\ epoch = 0
    /\ lost = FALSE
    /\ sent = 0
    /\ taken = 0
    /\ snapshot_epoch = 0

\* orderbook.partial(&data)
CallPartial ==
    /\ pc = "idle"
    /\ \E data \in BookPartials :
        /\ orderbook' = partial(orderbook, data)
        /\ fetched' = data
    /\ before' = Sides(orderbook)
    /\ pc' = "called"
    /\ branch' = "partial"
    /\ UNCHANGED <<aux, stream, snapshot_epoch>>
    /\ UNCHANGED <<partial_init, msg, snapshot_id, synced, recovered>>

\* orderbook.update(&data)
CallUpdate ==
    /\ pc = "idle"
    /\ \E data \in BookEvents :
        /\ orderbook' = update(orderbook, data)
        /\ msg' = data
    /\ before' = Sides(orderbook)
    /\ pc' = "called"
    /\ branch' = "update"
    /\ UNCHANGED <<aux, stream, snapshot_epoch>>
    /\ UNCHANGED <<partial_init, fetched, snapshot_id, synced, recovered>>

\* orderbook.verify(pu_id, check_bid_ask_overlapping): the book is read only.
CallVerify ==
    /\ pc = "idle"
    /\ \E pu_id \in {0, 1}, check_bid_ask_overlapping \in BOOLEAN :
        ret' = [pu_id |-> pu_id,
                check_bid_ask_overlapping |-> check_bid_ask_overlapping,
                result |-> verify(orderbook, pu_id, check_bid_ask_overlapping)]
    /\ before' = orderbook
    /\ pc' = "called"
    /\ branch' = "verify"
    /\ UNCHANGED <<sink, stream, snapshot_epoch>>
    /\ UNCHANGED <<orderbook, partial_init, msg, fetched, snapshot_id, synced,
                   recovered>>

\* orderbook.get_depth(depth): the book is read only.
CallGetDepth ==
    /\ pc = "idle"
    /\ \E depth \in 0..MaxDepth :
        ret' = [depth |-> depth, result |-> get_depth(orderbook, depth)]
    /\ before' = orderbook
    /\ pc' = "called"
    /\ branch' = "get_depth"
    /\ UNCHANGED <<sink, stream, snapshot_epoch>>
    /\ UNCHANGED <<orderbook, partial_init, msg, fetched, snapshot_id, synced,
                   recovered>>

\* The call has returned and the borrow of data has ended.
Return ==
    /\ pc = "called"
    /\ pc' = "idle"
    /\ msg' = NoMsg
    /\ fetched' = NoMsg
    /\ before' = NoMsg
    /\ branch' = "none"
    /\ ret' = NoMsg
    /\ UNCHANGED <<sink, stream, snapshot_epoch>>
    /\ UNCHANGED <<orderbook, partial_init, snapshot_id, synced, recovered>>

NextBook == CallPartial \/ CallUpdate \/ CallVerify \/ CallGetDepth \/ Return

SpecBook == InitBook /\ [][NextBook]_vars

\* ------------------------------------------------------------- properties

\* The diff of the current iteration straddles the id L.
Bridges(m, L) == m.first_update_id <= L /\ L <= m.final_update_id

\* The current iteration handed its diff to orderbook.update.
Applied == branch \in {"bridge", "verified"}

\* C1: a diff processed in the Synced state whose previous_final_update_id
\* differs from the book's final_update_id is never handed to update: the
\* step that processes it leaves bids, asks, final_update_id and timestamp
\* as they were.
C1_MismatchedDiffLeavesBook ==
    [][(/\ pc = "process"
        /\ state = "Synced"
        /\ msg.previous_final_update_id # orderbook.final_update_id)
       => orderbook' = orderbook]_vars

\* C2: in AwaitingSnapshot, with the snapshot of last_update_id L applied,
\* a diff with first_update_id <= L <= final_update_id is applied without a
\* check of previous_final_update_id: afterwards the book's final_update_id
\* is the diff's and the synchronizer is Synced.
C2_BridgingDiffApplied ==
    [][(/\ pc = "process"
        /\ state = "AwaitingSnapshot"
        /\ Bridges(msg, snapshot_id))
       => (/\ orderbook' = update(orderbook, msg)
           /\ orderbook'.final_update_id = msg.final_update_id
           /\ state' = "Synced")]_vars

\* C3: a diff whose final_update_id is below the last_update_id of the
\* snapshot most recently applied (initial or recovery) is discarded: no
\* field of the book changes, no snapshot is fetched, and the synchronizer
\* state stays what it was.
C3_StaleDiffDiscarded ==
    [][(/\ pc = "process"
        /\ msg.final_update_id < snapshot_id)
       => (/\ orderbook' = orderbook
           /\ pc' = "recv"
           /\ state' = state)]_vars

\* C4: in Synced, a diff whose previous_final_update_id differs from the
\* book's final_update_id fails verification: the synchronizer moves to
\* Resyncing and the book is unchanged by the processing of that diff.
C4_MismatchResyncs ==
    [][(/\ pc = "process"
        /\ state = "Synced"
        /\ msg.previous_final_update_id # orderbook.final_update_id)
       => (/\ state' = "Resyncing"
           /\ orderbook' = orderbook)]_vars

\* C5: after a recovery snapshot with last_update_id L2 is installed, the
\* stale test and the bridging test of the following diffs read L2: a diff
\* ending below L2 is discarded, and the next diff with
\* first_update_id <= L2 <= final_update_id is applied and makes the
\* synchronizer Synced.
C5_TestsReadRecoverySnapshot ==
    [][(pc = "process" /\ recovered)
       => (/\ msg.final_update_id < snapshot_id
              => (orderbook' = orderbook /\ pc' = "recv")
           /\ (~synced /\ Bridges(msg, snapshot_id))
              => (/\ orderbook'.final_update_id = msg.final_update_id
                  /\ Applied'
                  /\ state' = "Synced"))]_vars

\* C6: between two snapshot applications the applied diffs form a gap-free
\* chain: the first one applied bridges the snapshot, every later one has
\* previous_final_update_id equal to the final_update_id of the diff applied
\* just before it (which is the book's final_update_id at that moment).
C6_AppliedDiffsChain ==
    [][(pc = "process" /\ pc' = "emit" /\ Applied')
       => IF synced
          THEN msg.previous_final_update_id = orderbook.final_update_id
          ELSE Bridges(msg, snapshot_id)]_vars

\* C7: from one processed diff to the next, while the synchronizer stays
\* Synced, the book's final_update_id does not decrease.
C7_FinalUpdateIdMonotone ==
    [][(pc = "process" /\ state = "Synced" /\ state' = "Synced")
       => orderbook'.final_update_id >= orderbook.final_update_id]_vars

\* C8: in every reachable state of the book, whatever partial and update
\* calls were made, no price is stored with quantity zero on either side.
C8_NoZeroQuantityStored ==
    /\ \A p \in DOMAIN orderbook.bids : orderbook.bids[p] # 0
    /\ \A p \in DOMAIN orderbook.asks : orderbook.asks[p] # 0

\* The prices a level list names.
Listed(levels) == {levels[i].price : i \in 1..Len(levels)}

\* The quantity of the last level of the list that names price p.
LastQty(levels, p) ==
    LET last == CHOOSE i \in 1..Len(levels) :
                   /\ levels[i].price = p
                   /\ \A j \in (i + 1)..Len(levels) : levels[j].price # p
    IN  levels[last].qty

\* The map holds the levels of the list and nothing else.
HoldsExactly(map, levels) ==
    /\ DOMAIN map = Listed(levels)
    /\ \A p \in DOMAIN map : map[p] = LastQty(levels, p)

\* C9: after partial, whatever the book held before, the book holds exactly
\* the snapshot's levels on both sides (a price stored before and absent
\* from the snapshot is gone), final_update_id is the snapshot's
\* last_update_id, timestamp its event_time, and applying the same snapshot
\* once more gives the same book.
C9_SnapshotResetsBook ==
    (pc = "called" /\ branch = "partial")
    => (/\ HoldsExactly(orderbook.bids, fetched.bids)
        /\ HoldsExactly(orderbook.asks, fetched.asks)
        /\ orderbook.final_update_id = fetched.last_update_id
        /\ orderbook.timestamp = fetched.event_time
        /\ partial(orderbook, fetched) = orderbook)

\* C9 witness: a snapshot that lists one bid and one ask was applied to a
\* book that held, on each side, another price with a non-zero quantity.
C9_Witness ==
    /\ pc = "called"
    /\ branch = "partial"
    /\ \E p \in DOMAIN before.bids \ Listed(fetched.bids) : before.bids[p] # 0
    /\ \E p \in DOMAIN before.asks \ Listed(fetched.asks) : before.asks[p] # 0
    /\ Len(fetched.bids) = 1
    /\ Len(fetched.asks) = 1
    /\ fetched.bids[1].qty # 0
    /\ fetched.asks[1].qty # 0
    /\ fetched.last_update_id = 1
    /\ orderbook.final_update_id = 1

\* One side after update: a listed price holds its (last) listed quantity,
\* or is absent when that quantity is zero; a price not listed is as before.
SideUpdated(old, levels, new) ==
    \A p \in DOMAIN old \cup DOMAIN new \cup Listed(levels) :
        IF p \in Listed(levels)
        THEN IF LastQty(levels, p) = 0
             THEN p \notin DOMAIN new
             ELSE p \in DOMAIN new /\ new[p] = LastQty(levels, p)
        ELSE /\ p \in DOMAIN new <=> p \in DOMAIN old
             /\ p \in DOMAIN new => new[p] = old[p]

\* C10: update with diff d sets final_update_id to d.final_update_id and
\* timestamp to d.event_time, sets each listed price with non-zero quantity
\* to that quantity, removes each listed price with zero quantity, and
\* leaves every price d does not list unchanged, on both sides.
C10_UpdateAppliesDiff ==
    (pc = "called" /\ branch = "update")
    => (/\ orderbook.final_update_id = msg.final_update_id
        /\ orderbook.timestamp = msg.event_time
        /\ SideUpdated(before.bids, msg.bids, orderbook.bids)
        /\ SideUpdated(before.asks, msg.asks, orderbook.asks))

\* C10 witness: the scenario of the design.  The bid side held one price,
\* the diff lists it with quantity zero and the bid side is empty after;
\* the ask the diff does not list is still there.
C10_Witness ==
    /\ pc = "called"
    /\ branch = "update"
    /\ DOMAIN before.bids = {1}
    /\ before.bids[1] = 2
    /\ msg.bids = <<[price |-> 1, qty |-> 0]>>
    /\ msg.asks = <<>>
    /\ DOMAIN orderbook.bids = {}
    /\ DOMAIN before.asks = {2}
    /\ before.asks[2] = 1
    /\ DOMAIN orderbook.asks = {2}
    /\ orderbook.asks[2] = 1
    /\ orderbook.final_update_id = 1

\* The map without price p, every other entry as it was.
Without(map, p) == [q \in DOMAIN map \ {p} |-> map[q]]

\* Every level of the list names price p with quantity zero.
OnlyZeroOf(levels, p) ==
    /\ levels # <<>>
    /\ \A i \in 1..Len(levels) : levels[i].price = p /\ levels[i].qty = 0

\* C11: upserting quantity 0 for a price leaves the price absent from the
\* map whether or not it was there, changes no other entry, and a second
\* upsert of quantity 0 for it changes nothing: a diff that lists (p, 0)
\* once or twice gives the map as it was without p, which is the map as it
\* was when p was absent.
C11_ZeroUpsertDeletes ==
    (pc = "called" /\ branch = "update")
    => \A p \in Listed(msg.bids) \cup Listed(msg.asks) :
        /\ OnlyZeroOf(msg.bids, p) => orderbook.bids = Without(before.bids, p)
        /\ OnlyZeroOf(msg.asks, p) => orderbook.asks = Without(before.asks, p)
        /\ (OnlyZeroOf(msg.bids, p) /\ p \notin DOMAIN before.bids)
           => orderbook.bids = before.bids
        /\ (OnlyZeroOf(msg.asks, p) /\ p \notin DOMAIN before.asks)
           => orderbook.asks = before.asks

\* C11 witness: the diff lists (1, 0) twice on the bid side; price 1 was
\* stored with a quantity and is gone, price 2 is as it was.
C11_Witness ==
    /\ pc = "called"
    /\ branch = "update"
    /\ Len(msg.bids) = 2
    /\ OnlyZeroOf(msg.bids, 1)
    /\ DOMAIN before.bids = {1, 2}
    /\ before.bids[1] = 2
    /\ before.bids[2] = 1
    /\ DOMAIN orderbook.bids = {2}
    /\ orderbook.bids[2] = 1

\* Some bid is priced at or above some ask.
Crossed(book) == \E b \in DOMAIN book.bids, a \in DOMAIN book.asks : b >= a

\* C12: verify returns true exactly when the book's final_update_id equals
\* the expected id and, with the crossed check asked for, no bid is priced at
\* or above an ask; without the crossed check the result is the comparison
\* of the ids alone. The book is as it was before the call.
C12_VerifyResult ==
    (pc = "called" /\ branch = "verify")
    => /\ ret.result = (/\ orderbook.final_update_id = ret.pu_id
                        /\ ret.check_bid_ask_overlapping => ~Crossed(orderbook))
       /\ ~ret.check_bid_ask_overlapping
          => ret.result = (orderbook.final_update_id = ret.pu_id)
       /\ orderbook = before

\* C12 witness: the ids match, the crossed check is asked for, bid 2 stands
\* above ask 1 and verify has returned false.
C12_Witness ==
    /\ pc = "called"
    /\ branch = "verify"
    /\ ret.check_bid_ask_overlapping
    /\ ret.pu_id = orderbook.final_update_id
    /\ 2 \in DOMAIN orderbook.bids
    /\ 1 \in DOMAIN orderbook.asks
    /\ orderbook.bids[2] # 0
    /\ orderbook.asks[1] # 0
    /\ ret.result = FALSE

\* One side of a get_depth result: the n best prices of the map, best
\* first, each with the quantity the map holds for it. Better(p, q) says
\* that price p comes before price q on this side.
BestFirst(prices, qtys, map, n, Better(_, _)) ==
    /\ Len(prices) = (IF n < Cardinality(DOMAIN map) THEN n
                      ELSE Cardinality(DOMAIN map))
    /\ Len(qtys) = Len(prices)
    /\ \A i \in 1..Len(prices) :
        /\ prices[i] \in DOMAIN map
        /\ qtys[i] = map[prices[i]]
        /\ \A j \in (i + 1)..Len(prices) : Better(prices[i], prices[j])
        /\ \A q \in DOMAIN map \ {prices[k] : k \in 1..Len(prices)} :
            Better(prices[i], q)

\* C14: get_depth(n) returns on each side min(n, number of levels) levels,
\* ask prices strictly ascending from the lowest ask, bid prices strictly
\* descending from the highest bid, the i-th quantity being the stored
\* quantity of the i-th price; the book is as it was before the call, and
\* the same call on it returns the same result.
C14_DepthBestFirst ==
    (pc = "called" /\ branch = "get_depth")
    => /\ BestFirst(ret.result.asks_price, ret.result.asks_qty,
                    orderbook.asks, ret.depth, LAMBDA p, q : p < q)
       /\ BestFirst(ret.result.bids_price, ret.result.bids_qty,
                    orderbook.bids, ret.depth, LAMBDA p, q : p > q)
       /\ orderbook = before
       /\ get_depth(orderbook, ret.depth) = ret.result

\* C14 witness: both sides hold prices 1 and 2 with different quantities
\* and depth 1 was asked for: the ask returned is 1, the bid returned is 2.
C14_Witness ==
    /\ pc = "called"
    /\ branch = "get_depth"
    /\ ret.depth = 1
    /\ DOMAIN orderbook.bids = {1, 2}
    /\ DOMAIN orderbook.asks = {1, 2}
    /\ orderbook.bids[1] = 1
    /\ orderbook.bids[2] = 2
    /\ orderbook.asks[1] = 2
    /\ orderbook.asks[2] = 1
    /\ ret.result.asks_price = <<1>>
    /\ ret.result.asks_qty = <<2>>
    /\ ret.result.bids_price = <<2>>
    /\ ret.result.bids_qty = <<2>>

\* C13: a book that is crossed while the synchronizer is Synced is treated
\* as a continuity fault: the step that handles the next diff leaves Synced
\* for Resyncing, so the book does not stay crossed and Synced.
C13_CrossedBookResyncs ==
    [][(/\ pc = "process"
        /\ state = "Synced"
        /\ Crossed(orderbook))
       => state' = "Resyncing"]_vars

\* C15: a failed snapshot fetch, the initial one or one of a resync, is
\* never fatal: no step taken while the task waits for a snapshot ends the
\* task.
C15_FetchFailureNotFatal ==
    [][(pc \in {"fetch_init", "fetch_resync"}) => (pc' # "panicked")]_vars

C16_ReconnectResets ==
    [][(/\ pc = "process"
        /\ pc' = "emit"
        /\ Applied')
       => msg.epoch <= snapshot_epoch]_vars

\* C17: a failure to connect, at the first connect or at a reconnect, never
\* ends the task of the symbol.
C17_ConnectFailureNotFatal ==
    [][(ws \in {"connect", "reconnect"}) => (ws' # "panicked")]_vars

\* C18: the diffs put into the channel are handled one at a time in the
\* order of their arrival, whatever connection they came over: each
\* rx.recv() hands the loop the one diff that arrived next after the diff
\* handed over before, that diff leaves the channel and the others keep
\* their order.
C18_ArrivalOrder ==
    [][(pc = "recv" /\ pc' # "recv")
       => (/\ msg'.seq = taken + 1
           /\ taken' = taken + 1
           /\ Len(rx') = Len(rx) - 1
           /\ \A i \in 1..Len(rx') : rx'[i].seq = taken + 1 + i)]_vars

\* C18 witness: the loop looks at the second diff, which came over the
\* connection made after a failure, while the third waits in the channel;
\* the first came over the first connection.
C18_Witness ==
    /\ pc = "process"
    /\ msg.seq = 2
    /\ msg.epoch = 1
    /\ taken = 2
    /\ Len(rx) = 1
    /\ rx[1].seq = 3
    /\ snapshot_epoch = 0

\* C20: fed a gap-free stream in which a diff bridges the snapshot fetched
\* by the recovery, the synchronizer gets back to Synced instead of
\* fetching again: the diff that bridges the recovery snapshot does not
\* send the task to fetch another one.
C20_RecoveryEnds ==
    [][(/\ pc = "process"
        /\ ~lost
        /\ recovered
        /\ ~synced
        /\ Bridges(msg, snapshot_id))
       => (pc' # "fetch_resync")]_vars

====
